---- MODULE Spec2Model ----
(***************************************************************************)
(* Badlam: the trampolined evaluator of src/interpreter/main.py, the       *)
(* environments, closures, errors and exception instances of               *)
(* src/interpreter/bl_types/essentials.py, over the AST of                 *)
(* src/bl_parser/nodes.py.                                                 *)
(*                                                                         *)
(* Spec     one call of ASTInterpreter.visit on an AST, step by step of    *)
(*          its control loop.                                              *)
(* SpecEnv  the operations on Env objects (Env.__init__, new_var, get_var) *)
(*          as the evaluator calls them: the Var and Lambda cases of       *)
(*          _visit and the BLFunction case of apply, applied to            *)
(*          environments drawn from a heap that starts with one Env().     *)
(* SpecObj  the capabilities of classes, instances and closures called     *)
(*          from the host: Class.new, Instance.get_attr and set_attr,      *)
(*          BLFunction.call.                                               *)
(* SpecErr  the errors apply and get_attr produce, and the capabilities    *)
(*          of a BLError.                                                  *)
(* SpecCall the two ways to apply a closure built over an Env:            *)
(*          BLFunction.call from the host and apply in the evaluator.      *)
(* SpecSeq  calls of ASTInterpreter.visit one after the other on one       *)
(*          interpreter, as the interactive loop of src/main.py makes      *)
(*          them.                                                          *)
(***************************************************************************)
EXTENDS Integers, Sequences, FiniteSets, TLC

\* ------------------------------------------------------------------ bounds

\* An AST handed to visit has at most MaxNodes nodes.
MaxNodes == 6
\* SpecEnv: at most MaxEnvs Env objects, MaxInsts exception instances and
\* MaxClosures closures are built.
MaxEnvs == 3
MaxInsts == 1
MaxClosures == 2
\* SpecObj and SpecErr: at most MaxObjs instances are allocated.
MaxObjs == 2

\* SpecSeq: the ASTs evaluated one after the other have at most MaxRunNodes
\* nodes each, and at most MaxCalls frames are left on interpreter.calls.
MaxRunNodes == 3
MaxCalls == 2

\* Identifiers of Var and Lambda nodes.
Names == {"x", "y"}

\* Python's None, as an environment, a receiver or a parent.
None == 0

\* ------------------------------------------------------------------- AST

\* A node's meta is its position: the root is 1, the only or first child of
\* the node at p is at 2p, the second child (a Call's arg) at 2p+1.
Var(meta, name) == [kind |-> "Var", meta |-> meta, name |-> name]

Lambda(meta, form_arg, body) ==
    [kind |-> "Lambda", meta |-> meta, form_arg |-> form_arg, body |-> body]

Paren(meta, expr) == [kind |-> "Paren", meta |-> meta, expr |-> expr]

Call(meta, callee, arg) ==
    [kind |-> "Call", meta |-> meta, callee |-> callee, arg |-> arg]

\* Any other _Expr: a node that matches none of the four cases of _visit.
Other(meta) == [kind |-> "Other", meta |-> meta]

\* The ASTs of at most n nodes whose root is at position p.
RECURSIVE Exprs(_, _)
Exprs(n, p) ==
    IF n = 0 THEN {}
    ELSE {Var(p, nm) : nm \in Names}
         \cup {Other(p)}
         \cup {Paren(p, e) : e \in Exprs(n - 1, 2 * p)}
         \cup {Lambda(p, a, b) : a \in Names, b \in Exprs(n - 1, 2 * p)}
         \cup UNION {{Call(p, c, a) : c \in Exprs(k, 2 * p),
                                      a \in Exprs(n - 1 - k, 2 * p + 1)}
                     : k \in 1..(n - 2)}

\* The nodes of an AST.
RECURSIVE Nodes(_)
Nodes(n) ==
    {n} \cup CASE n.kind = "Paren" -> Nodes(n.expr)
               [] n.kind = "Lambda" -> Nodes(n.body)
               [] n.kind = "Call" -> Nodes(n.callee) \cup Nodes(n.arg)
               [] OTHER -> {}

\* The names a node leaves free.
RECURSIVE FreeVars(_)
FreeVars(n) ==
    CASE n.kind = "Var" -> {n.name}
      [] n.kind = "Paren" -> FreeVars(n.expr)
      [] n.kind = "Lambda" -> FreeVars(n.body) \ {n.form_arg}
      [] n.kind = "Call" -> FreeVars(n.callee) \cup FreeVars(n.arg)
      [] OTHER -> {}

\* str(node): the text __str__ renders, as its sequence of tokens.
RECURSIVE Str(_)
Str(n) ==
    CASE n.kind = "Paren" -> <<"(">> \o Str(n.expr) \o <<")">>
      [] n.kind = "Call" -> Str(n.callee) \o <<" ">> \o Str(n.arg)
      [] n.kind = "Var" -> <<n.name>>
      [] n.kind = "Lambda" -> <<"\\", n.form_arg, ".">> \o Str(n.body)
      [] OTHER -> <<"<expr>">>

Max(a, b) == IF a >= b THEN a ELSE b

\* The nested __str__ calls of str(node): each __str__ formats its children
\* with a nested call of their __str__.
RECURSIVE StrDepth(_)
StrDepth(n) ==
    CASE n.kind = "Paren" -> 1 + StrDepth(n.expr)
      [] n.kind = "Call" -> 1 + Max(StrDepth(n.callee), StrDepth(n.arg))
      [] n.kind = "Lambda" -> 1 + StrDepth(n.body)
      [] OTHER -> 1

\* ---------------------------------------------------------------- values

\* dict | {k: v}, and dict[k] = v on a copy.
Put(d, k, v) == [x \in DOMAIN d \cup {k} |-> IF x = k THEN v ELSE d[x]]

EmptyDict == [x \in {} |-> None]

PythonValue(value) == [kind |-> "PythonValue", value |-> value]

Bool(value) == [kind |-> "Bool", value |-> value]

String(value) == [kind |-> "String", value |-> value]

NULL == [kind |-> "Null"]

\* A Class and an Instance as values: the class by its name, the instance
\* by its id in the heap of instances.
ClassRef(name) == [kind |-> "Class", name |-> name]

InstanceRef(id) == [kind |-> "Instance", id |-> id]

\* PythonFunction(function, this), function the name of the host function.
PythonFunction(function, this) ==
    [kind |-> "PythonFunction", function |-> function, this |-> this]

\* BLFunction(form_arg, body, env, src): name and this take their
\* defaults, the name being the String of the lambda sign.
BLFunction(form_arg, body, env, src) ==
    [kind |-> "BLFunction", form_arg |-> form_arg, body |-> body,
     env |-> env, src |-> src, name |-> String("lambda"), this |-> None]

\* Call(function, meta): a frame of interpreter.calls.
CallFrame(function, meta) == [function |-> function, meta |-> meta]

\* exc_methods, the member map of ExceptionClass.
exc_methods ==
    Put(Put(EmptyDict, "__init__", PythonFunction("exc_init", None)),
        "__dump__", PythonFunction("exc_dump", None))

\* The closure \x.x evaluated at top level, as _visit builds it.
Identity ==
    BLFunction("x", Var(2, "x"), None, Str(Lambda(1, "x", Var(2, "x"))))

\* The classes: the superclass and the member map of each. Object,
\* Exception and the four exceptions are the built-in ones. A, B and C are
\* classes built with Class(name, super, vars): A overrides __init__ with a
\* closure and defines v, B under A overrides v, C under B defines nothing.
Classes ==
    [c \in {"Object", "Exception", "NotImplementedException",
            "AttrNotFoundException", "VarNotFoundException",
            "IncorrectTypeException", "A", "B", "C"} |->
        CASE c = "Object" -> [super |-> "None", vars |-> EmptyDict]
          [] c = "Exception" -> [super |-> "Object", vars |-> exc_methods]
          [] c = "A" ->
               [super |-> "Exception",
                vars |-> Put(Put(EmptyDict, "__init__", Identity),
                             "v", String("A"))]
          [] c = "B" ->
               [super |-> "A", vars |-> Put(EmptyDict, "v", String("B"))]
          [] c = "C" -> [super |-> "B", vars |-> EmptyDict]
          [] OTHER -> [super |-> "Exception", vars |-> EmptyDict]]

\* Instance(class_, {}): the instance heap with one more instance, whose id
\* is its index.
Instance(is, class_) == Append(is, [class_ |-> class_, vars |-> EmptyDict])

\* What a capability of a value leaves: whether it raised a host exception,
\* the heap of instances, the result, the frames it appended to
\* interpreter.calls, and the depth of the host calls nested in it.
Ret(raised, is, res, pushed, frames) ==
    [raised |-> raised, insts |-> is, res |-> res, pushed |-> pushed,
     frames |-> frames]

\* BLError.__init__ that keeps the position on the error only.
BLError_no_position(is, value, meta) ==
    [insts |-> is,
     res |-> [kind |-> "BLError", value |-> value, meta |-> meta]]

\* BLError.__init__(value, meta): the error, and the instance heap with the
\* position stored on the wrapped instance.
BLError(is, value, meta) ==
    [insts |-> [is EXCEPT ![value].vars = Put(@, "meta", PythonValue(meta))],
     res |-> [kind |-> "BLError", value |-> value, meta |-> meta]]

\* An error that wraps the instance an earlier error of the same class
\* wraps, when there is one, and stores its own position on it.
NewError_shared(is, class_, meta) ==
    LET old == {i \in DOMAIN is : is[i].class_ = class_}
        e == IF old = {}
             THEN BLError(Instance(is, class_), Len(is) + 1, meta)
             ELSE BLError(is, CHOOSE i \in old : TRUE, meta)
    IN [insts |-> e.insts, res |-> e.res, frames |-> 2]

\* BLError(cast_to_instance(class_.new([], interpreter, meta)), meta), for
\* class_ one of the four exception classes: none has an __init__ of its
\* own, so Class.new is Instance(class_, {}) and runs no constructor. The
\* result is [insts, res, frames], frames the depth of the host calls
\* nested in it (Class.new and Instance.__init__ in it, then
\* BLError.__init__ and PythonValue.__init__ in it).
NewError(is, class_, meta) ==
    LET e == BLError(Instance(is, class_), Len(is) + 1, meta)
    IN [insts |-> e.insts, res |-> e.res, frames |-> 2]

\* exc_init(meta, interpreter, this, msg, *_). Called with no msg it is a
\* host TypeError.
exc_init(is, meta, this, args) ==
    IF Len(args) = 0 THEN Ret(TRUE, is, NULL, <<>>, 1)
    ELSE IF this # None
    THEN Ret(FALSE, [is EXCEPT ![this].vars = Put(@, "msg", args[1])],
             NULL, <<>>, 1)
    ELSE LET r == NewError(is, "NotImplementedException", meta)
         IN Ret(FALSE, r.insts, r.res, <<>>, 1 + r.frames)

\* exc_dump(meta, interpreter, this, *_).
exc_dump(is, meta, this, args) ==
    IF this # None THEN Ret(FALSE, is, String(is[this].class_), <<>>, 1)
    ELSE LET r == NewError(is, "NotImplementedException", meta)
         IN Ret(FALSE, r.insts, r.res, <<>>, 1 + r.frames)

\* Class.get_attr that asks the superclass first and looks in the class's
\* own member map only when the chain above does not have attr.
RECURSIVE Class_get_attr_super_first(_, _, _, _)
Class_get_attr_super_first(is, c, attr, meta) ==
    LET own == IF attr \in DOMAIN Classes[c].vars
               THEN Ret(FALSE, is, Classes[c].vars[attr], <<>>, 1)
               ELSE LET r == NewError(is, "AttrNotFoundException", meta)
                    IN Ret(FALSE, r.insts, r.res, <<>>, 1 + r.frames)
    IN IF Classes[c].super = "None" THEN own
       ELSE LET r == Class_get_attr_super_first(is, Classes[c].super, attr,
                                                meta)
            IN IF r.res.kind = "BLError" /\ attr \in DOMAIN Classes[c].vars
               THEN own
               ELSE [r EXCEPT !.frames = @ + 1]

\* Class.get_attr(attr, interpreter, meta) on the class c.
RECURSIVE Class_get_attr(_, _, _, _)
Class_get_attr(is, c, attr, meta) ==
    IF attr \in DOMAIN Classes[c].vars
    THEN Ret(FALSE, is, Classes[c].vars[attr], <<>>, 1)
    ELSE IF Classes[c].super # "None"
    THEN LET r == Class_get_attr(is, Classes[c].super, attr, meta)
         IN [r EXCEPT !.frames = @ + 1]
    ELSE LET r == NewError(is, "AttrNotFoundException", meta)
         IN Ret(FALSE, r.insts, r.res, <<>>, 1 + r.frames)

\* case SupportsBLCall(): the values that have call and bind.
SupportsBLCall(value) == value.kind \in {"PythonFunction", "BLFunction"}

\* PythonFunction.bind(this).
PythonFunction_bind(fn, this) == PythonFunction(fn.function, this)

\* BLFunction.bind(this): BLFunction(form_arg, body, env, src, this) hands
\* this to the fifth field of the dataclass, which is name.
BLFunction_bind(fn, this) ==
    [BLFunction(fn.form_arg, fn.body, fn.env, fn.src)
        EXCEPT !.name = InstanceRef(this)]

\* res.bind(self)
bind(fn, this) ==
    IF fn.kind = "PythonFunction" THEN PythonFunction_bind(fn, this)
    ELSE BLFunction_bind(fn, this)

\* Instance.get_attr(attr, interpreter, meta) on the instance this.
Instance_get_attr(is, this, attr, meta) ==
    IF attr \in DOMAIN is[this].vars
    THEN Ret(FALSE, is, is[this].vars[attr], <<>>, 1)
    ELSE LET r == Class_get_attr(is, is[this].class_, attr, meta)
         IN IF SupportsBLCall(r.res)
            THEN [r EXCEPT !.res = bind(r.res, this), !.frames = @ + 1]
            ELSE [r EXCEPT !.frames = @ + 1]

\* BLFunction.call_cps(args, interpreter, meta, then): the frame is
\* appended to interpreter.calls, and the read of interpreter.locals on the
\* next line is an AttributeError, since ASTInterpreter has no such
\* attribute.
BLFunction_call_cps(fn, args, meta, is) ==
    Ret(TRUE, is, NULL, <<CallFrame(fn, meta)>>, 1)

\* BLError.get_attr, set_attr, call, new and dump on the error e: each
\* returns self.
BLError_get_attr(is, e, attr, meta) == Ret(FALSE, is, e, <<>>, 1)

\* BLError.set_attr with the value stored on the wrapped instance.
BLError_set_attr_stores(is, e, attr, value, meta) ==
    Ret(FALSE, [is EXCEPT ![e.value].vars = Put(@, attr, value)], e, <<>>, 1)

BLError_set_attr(is, e, attr, value, meta) == Ret(FALSE, is, e, <<>>, 1)

BLError_call(is, e, args, meta) == Ret(FALSE, is, e, <<>>, 1)

BLError_new(is, e, args, meta) == Ret(FALSE, is, e, <<>>, 1)

BLError_dump(is, e, meta) == Ret(FALSE, is, e, <<>>, 1)

\* Instance.set_attr(attr, value, interpreter, meta) on the instance this.
Instance_set_attr(is, this, attr, value, meta) ==
    IF value.kind = "BLError" THEN Ret(FALSE, is, value, <<>>, 1)
    ELSE Ret(FALSE, [is EXCEPT ![this].vars = Put(@, attr, value)], value,
             <<>>, 1)

\* value.call(args, interpreter, meta): BLError.call, PythonFunction.call,
\* BLFunction.call and ExpressionResult.call.
call(callee, args, meta, is) ==
    CASE callee.kind = "BLError" -> BLError_call(is, callee, args, meta)
      [] callee.kind = "PythonFunction" ->
           LET r == IF callee.function = "exc_init"
                    THEN exc_init(is, meta, callee.this, args)
                    ELSE exc_dump(is, meta, callee.this, args)
           IN [r EXCEPT !.frames = @ + 1]
      [] callee.kind = "BLFunction" ->
           LET r == BLFunction_call_cps(callee, args, meta, is)
           IN [r EXCEPT !.frames = @ + 1]
      [] OTHER ->
           LET r == NewError(is, "NotImplementedException", meta)
           IN Ret(FALSE, r.insts, r.res, <<>>, 1 + r.frames)

\* Class.new(args, interpreter, meta) on the class class_: res the new
\* instance, or the BLError its constructor returned. Only a class whose
\* own member map holds __init__ runs a constructor.
Class_new(is, class_, args, meta) ==
    LET allocated == Instance(is, class_)
        inst == Len(allocated)
    IN IF "__init__" \in DOMAIN Classes[class_].vars
       THEN LET constr == Instance_get_attr(allocated, inst, "__init__", meta)
                r == call(constr.res, args, meta, constr.insts)
            IN IF r.raised \/ r.res.kind = "BLError"
               THEN [r EXCEPT !.frames = @ + 1]
               ELSE [r EXCEPT !.res = InstanceRef(inst), !.frames = @ + 1]
       ELSE Ret(FALSE, allocated, InstanceRef(inst), <<>>, 2)

\* ----------------------------------------------------------- environment

\* essentials.Var: an immutable binding.
EnvVar(value) == [kind |-> "Var", value |-> value]

\* Env.__init__(interpreter, vars_, parent).
Env(vars_, parent) == [vars |-> vars_, parent |-> parent]

\* new_var with the binding also stored in the receiver's own map.
new_var_in_place(es, e, name, value) ==
    Append([es EXCEPT ![e].vars = Put(@, name, EnvVar(value))],
           Env(Put(es[e].vars, name, EnvVar(value)), e))

\* new_var with the operands of | swapped: a binding the receiver already
\* has wins over the new one.
new_var_keeps_old(es, e, name, value) ==
    Append(es, Env([x \in DOMAIN es[e].vars \cup {name} |->
                       IF x \in DOMAIN es[e].vars THEN es[e].vars[x]
                       ELSE EnvVar(value)], e))

\* Env.new_var(name, value) on the environment e of the heap es: the heap
\* with the child it returns, whose id is its index.
new_var(es, e, name, value) ==
    Append(es, Env(Put(es[e].vars, name, EnvVar(value)), e))

\* Env.resolve_var(name, meta) on e: [insts, res, frames], res a binding or
\* an error and frames the depth of the nested calls, this one included.
RECURSIVE resolve_var(_, _, _, _, _)
resolve_var(es, is, e, name, meta) ==
    IF name \in DOMAIN es[e].vars
    THEN [insts |-> is, res |-> es[e].vars[name], frames |-> 1]
    ELSE IF es[e].parent # None
         THEN LET r == resolve_var(es, is, es[e].parent, name, meta)
              IN [r EXCEPT !.frames = @ + 1]
         ELSE LET r == NewError(is, "VarNotFoundException", meta)
              IN [insts |-> r.insts, res |-> r.res, frames |-> 1 + r.frames]

\* Env.get_var(name, meta) on e: [insts, res, frames].
get_var(es, is, e, name, meta) ==
    LET r == resolve_var(es, is, e, name, meta)
    IN [insts |-> r.insts,
        res |-> IF r.res.kind = "Var" THEN r.res.value ELSE r.res,
        frames |-> 1 + r.frames]

\* ------------------------------------------------------------- evaluator

\* The continuations _visit builds for a Call node, and the stack they form:
\* each closes over the continuation `then` it was built with, which is the
\* rest of the stack. The empty stack is visit's lambda x: ("done", x).
\*   lambda callee: self._visit(arg, env, lambda arg: ...)
CalleeThen(arg, env, meta) ==
    [k |-> "callee", arg |-> arg, env |-> env, meta |-> meta]

\*   lambda arg: self.apply(callee, arg, meta, then)
ArgThen(callee, meta) == [k |-> "arg", callee |-> callee, meta |-> meta]

\* The steps a trampolined function returns.
\*   ("running", self._visit, (node, env, then))
RunVisit(node, env, then) ==
    [tag |-> "running", f |-> "_visit", node |-> node, env |-> env,
     then |-> then]

\*   ("running", then, (x,))
RunThen(then, x) == [tag |-> "running", f |-> "then", then |-> then, arg |-> x]

\*   ("done", x)
Done(x) == [tag |-> "done", res |-> x]

\* An object that is no step: neither case of visit's match takes it.
NoStep(x) == [tag |-> "object", obj |-> x]

\* What one host call leaves: whether it raised a host exception, the step
\* (or object) it returned, both heaps, and the depth of the host calls
\* nested in it, itself included.
Out(raised, tramp, es, is, frames) ==
    [raised |-> raised, tramp |-> tramp, envs |-> es, insts |-> is,
     frames |-> frames]

\* A host exception (AttributeError of None) raised in the call itself.
Raised(es, is) == Out(TRUE, NoStep(NULL), es, is, 1)

\* visit_Lambda with the closure built over no environment instead of the
\* one _visit was handed.
visit_Lambda_no_capture(node, env, then, es, is) ==
    Out(FALSE,
        RunThen(then, BLFunction(node.form_arg, node.body, None, Str(node))),
        es, is, 1 + StrDepth(node))

\* The Lambda case of _visit: a BLFunction over the environment _visit was
\* handed, built with str(node) as its source text.
visit_Lambda(node, env, then, es, is) ==
    Out(FALSE,
        RunThen(then, BLFunction(node.form_arg, node.body, env, Str(node))),
        es, is, 1 + StrDepth(node))

\* ASTInterpreter._visit(node, env, then).
_visit(node, env, then, es, is) ==
    CASE node.kind = "Paren" ->
           Out(FALSE, RunVisit(node.expr, env, then), es, is, 1)
      [] node.kind = "Call" ->
           Out(FALSE,
               RunVisit(node.callee, env,
                        <<CalleeThen(node.arg, env, node.meta)>> \o then),
               es, is, 1)
      [] node.kind = "Var" ->
           IF env = None THEN Raised(es, is)
           ELSE LET r == get_var(es, is, env, node.name, node.meta)
                IN Out(FALSE, RunThen(then, r.res), es, r.insts, 1 + r.frames)
      [] node.kind = "Lambda" -> visit_Lambda(node, env, then, es, is)
      [] OTHER ->
           LET r == NewError(is, "NotImplementedException", node.meta)
           IN Out(FALSE, RunThen(then, r.res), es, r.insts, 1 + r.frames)

\* call_cps that returns what call returned instead of a step for then.
call_cps_bare(callee, arg, meta, then, es, is) ==
    LET r == call(callee, <<arg>>, meta, is)
    IN Out(r.raised, NoStep(r.res), es, r.insts, 1 + r.frames)

\* callee.call_cps([arg], self, meta, then) as apply reaches it:
\* BLError.call_cps returns the error itself, ExpressionResult.call_cps the
\* step that hands self.call(args, interpreter, meta) to then.
call_cps(callee, arg, meta, then, es, is) ==
    IF callee.kind = "BLError" THEN Out(FALSE, NoStep(callee), es, is, 1)
    ELSE LET r == call(callee, <<arg>>, meta, is)
         IN IF r.raised THEN Out(TRUE, NoStep(NULL), es, r.insts, 1 + r.frames)
            ELSE Out(FALSE, RunThen(then, r.res), es, r.insts, 1 + r.frames)

\* ASTInterpreter.apply(callee, arg, meta, then).
apply(callee, arg, meta, then, es, is) ==
    IF callee.kind = "BLFunction"
    THEN IF callee.env = None THEN Raised(es, is)
         ELSE Out(FALSE, RunVisit(callee.body, Len(es) + 1, then),
                  new_var(es, callee.env, callee.form_arg, arg), is, 3)
    ELSE LET r == call_cps(callee, arg, meta, then, es, is)
         IN [r EXCEPT !.frames = @ + 1]

\* The deepest chain of nested host calls in the evaluator's code that goes
\* through no recursive function: visit, a continuation, apply, call_cps,
\* call, Class.new, Instance.__init__.
FixedCallChain ==
    <<"visit", "then", "apply", "call_cps", "call", "new", "__init__">>

HostDepthBound == Len(FixedCallChain)

\* ----------------------------------------------------------------- state

VARIABLES
    node,     \* the AST handed to visit
    pc,       \* "start", "loop", "returned", "raised" (left by a host
              \* exception); "env" in SpecEnv and SpecCall, "obj" in
              \* SpecObj, "err" in SpecErr
    tramp,    \* visit's pending step
    envs,     \* the heap of Env objects, an Env's id its index
    insts,    \* the heap of Instance objects
    calls,    \* interpreter.calls
    depth,    \* the deepest nesting of host calls the last step reached,
              \* visit's own frame included
    events,   \* history: the _visit and apply calls made and the results
              \* handed to a Call's continuations, in order
    bound,    \* history: for each Env of the heap, the binding new_var was
              \* called with to make it (NoBinding for Env() itself)
    built,    \* SpecEnv, history: the Lambda evaluations made
    lookup,   \* history: the last call made; in SpecSeq, interpreter.calls
              \* as the evaluation under way was entered with
    errors    \* SpecObj, history: the BLErrors the calls made have returned

vars ==
    <<node, pc, tramp, envs, insts, calls, depth, events, bound, built,
      lookup, errors>>

Unassigned == [tag |-> "unassigned"]

NoLookup == [op |-> "none"]

NoBinding == [name |-> "", value |-> NULL]

Binding(name, value) == [name |-> name, value |-> value]

\* History records.
\*   _visit was called on the node n with the environment env
VisitEv(n, env) == [ev |-> "visit", meta |-> n.meta, val |-> NULL, env |-> env]
\*   the callee of the Call at meta evaluated to x
CalleeEv(meta, x) == [ev |-> "callee", meta |-> meta, val |-> x, env |-> None]
\*   the arg of the Call at meta evaluated to x
ArgEv(meta, x) == [ev |-> "arg", meta |-> meta, val |-> x, env |-> None]
\*   apply was called for the Call at meta, on callee
ApplyEv(meta, callee) ==
    [ev |-> "apply", meta |-> meta, val |-> callee, env |-> None]

\* ASTInterpreter.__init__, and the AST visit is about to be called with.
Init ==
    /\ node \in Exprs(MaxNodes, 1)
    /\ pc = "start"
    /\ tramp = Unassigned
    /\ envs = <<>>
    /\ insts = <<>>
    /\ calls = <<>>
    /\ depth = 1
    /\ events = <<>>
    /\ bound = <<>>
    /\ built = {}
    /\ lookup = NoLookup
    /\ errors = {}

\* The loop takes what a host call made from the frame at depth `base` left.
Take(o, base, evs) ==
    /\ pc' = IF o.raised THEN "raised" ELSE "loop"
    /\ tramp' = IF o.raised THEN tramp ELSE o.tramp
    /\ envs' = o.envs
    /\ insts' = o.insts
    /\ depth' = base + o.frames
    /\ events' = events \o evs
    /\ UNCHANGED <<node, calls, built, lookup, errors>>

\* The frame a call of apply made, if it made one.
Bind(o, name, value) ==
    bound' = IF Len(o.envs) > Len(envs)
             THEN Append(bound, Binding(name, value))
             ELSE bound

\* visit that starts every evaluation from an empty interpreter.calls.
Visit_clears_calls ==
    /\ pc = "start"
    /\ LET o == _visit(node, None, <<>>, envs, insts)
       IN /\ pc' = IF o.raised THEN "raised" ELSE "loop"
          /\ tramp' = IF o.raised THEN tramp ELSE o.tramp
          /\ envs' = o.envs
          /\ insts' = o.insts
          /\ depth' = 1 + o.frames
          /\ events' = events \o <<VisitEv(node, None)>>
    /\ calls' = <<>>
    /\ UNCHANGED <<node, bound, built, lookup, errors>>

\* visit, line 40: tramp = self._visit(node, None, lambda x: ("done", x)).
Visit ==
    /\ pc = "start"
    /\ Take(_visit(node, None, <<>>, envs, insts), 1, <<VisitEv(node, None)>>)
    /\ UNCHANGED bound

\* The loop, case "running", f, args with f = self._visit.
LoopVisit ==
    /\ pc = "loop"
    /\ tramp.tag = "running"
    /\ tramp.f = "_visit"
    /\ Take(_visit(tramp.node, tramp.env, tramp.then, envs, insts), 1,
            <<VisitEv(tramp.node, tramp.env)>>)
    /\ UNCHANGED bound

\* The loop, case "running", f, args with f = lambda x: ("done", x).
LoopThenDone ==
    /\ pc = "loop"
    /\ tramp.tag = "running"
    /\ tramp.f = "then"
    /\ tramp.then = <<>>
    /\ Take(Out(FALSE, Done(tramp.arg), envs, insts, 1), 1, <<>>)
    /\ UNCHANGED bound

\* The loop, case "running", f, args with f = lambda callee: ... of a Call.
LoopThenCallee ==
    /\ pc = "loop"
    /\ tramp.tag = "running"
    /\ tramp.f = "then"
    /\ tramp.then # <<>>
    /\ Head(tramp.then).k = "callee"
    /\ LET k == Head(tramp.then)
       IN Take(_visit(k.arg, k.env,
                      <<ArgThen(tramp.arg, k.meta)>> \o Tail(tramp.then),
                      envs, insts),
               2, <<CalleeEv(k.meta, tramp.arg), VisitEv(k.arg, k.env)>>)
    /\ UNCHANGED bound

\* The loop, case "running", f, args with f = lambda arg: ... of a Call.
LoopThenArg ==
    /\ pc = "loop"
    /\ tramp.tag = "running"
    /\ tramp.f = "then"
    /\ tramp.then # <<>>
    /\ Head(tramp.then).k = "arg"
    /\ LET k == Head(tramp.then)
           o == apply(k.callee, tramp.arg, k.meta, Tail(tramp.then),
                      envs, insts)
       IN /\ Take(o, 2, <<ArgEv(k.meta, tramp.arg),
                          ApplyEv(k.meta, k.callee)>>)
          /\ Bind(o, k.callee.form_arg, tramp.arg)

\* The loop, case "done", res: return res.
LoopDone ==
    /\ pc = "loop"
    /\ tramp.tag = "done"
    /\ pc' = "returned"
    /\ depth' = 1
    /\ UNCHANGED <<node, tramp, envs, insts, calls, events, bound, built,
                   lookup, errors>>

\* The loop, neither case: the match falls through and while True runs the
\* same match on the same object again.
LoopNoMatch ==
    /\ pc = "loop"
    /\ tramp.tag = "object"
    /\ UNCHANGED vars

Next ==
    \/ Visit
    \/ LoopVisit
    \/ LoopThenDone
    \/ LoopThenCallee
    \/ LoopThenArg
    \/ LoopDone
    \/ LoopNoMatch

Spec == Init /\ [][Next]_vars

\* --------------------------------------------- the operations on an Env

\* The positions of the Var nodes evaluated and of the Calls applied.
Metas == {2}

\* The Lambda nodes evaluated: one for each formal parameter.
LambdaNodes == {Lambda(1, a, Var(2, "x")) : a \in Names}

\* The values at hand: NULL and the closures built so far.
Values == {NULL} \cup {b.fn : b \in built}

\* The bindings visible through the environment e: what each name resolves
\* to from e.
Visible(es, e) ==
    [n \in {m \in Names : resolve_var(es, <<>>, e, m, 1).res.kind = "Var"} |->
        resolve_var(es, <<>>, e, n, 1).res.value]

\* Env(interpreter): one root environment, no bindings, no parent.
InitEnv ==
    /\ node = Other(1)
    /\ pc = "env"
    /\ tramp = Unassigned
    /\ envs = <<Env(EmptyDict, None)>>
    /\ insts = <<>>
    /\ calls = <<>>
    /\ depth = 0
    /\ events = <<>>
    /\ bound = <<NoBinding>>
    /\ built = {}
    /\ lookup = NoLookup
    /\ errors = {}

\* _visit(node, env, then) on a Var node and an environment of the heap,
\* and the env.get_var(name, meta) it calls.
EvalVar ==
    /\ pc = "env"
    /\ \E e \in DOMAIN envs, name \in Names, meta \in Metas :
        LET o == _visit(Var(meta, name), e, <<>>, envs, insts)
        IN /\ Len(o.insts) <= MaxInsts
           /\ insts' = o.insts
           /\ lookup' = [op |-> "get_var", env |-> e, name |-> name,
                         value |-> meta, res |-> o.tramp.arg]
    /\ UNCHANGED <<node, pc, tramp, envs, calls, depth, events, bound,
                   built, errors>>

\* _visit(node, env, then) on a Lambda node and an environment of the heap.
EvalLambda ==
    /\ pc = "env"
    /\ Cardinality(built) < MaxClosures
    /\ \E n \in LambdaNodes, e \in DOMAIN envs :
        LET o == _visit(n, e, <<>>, envs, insts)
        IN /\ built' = built \cup {[node |-> n, env |-> e,
                                    fn |-> o.tramp.arg,
                                    at |-> Len(envs),
                                    seen |-> Visible(envs, e)]}
           /\ lookup' = [op |-> "_visit", env |-> e, name |-> n.form_arg,
                         value |-> n.meta, res |-> o.tramp.arg]
    /\ UNCHANGED <<node, pc, tramp, envs, insts, calls, depth, events,
                   bound, errors>>

\* apply(callee, arg, meta, then) on a closure built over an environment of
\* the heap, and the env.new_var(form_arg, arg) it calls.
ApplyClosure ==
    /\ pc = "env"
    /\ Len(envs) < MaxEnvs
    /\ \E b \in built, arg \in Values, meta \in Metas :
        LET callee == b.fn
            o == apply(callee, arg, meta, <<>>, envs, insts)
        IN /\ ~o.raised
           /\ envs' = o.envs
           /\ Bind(o, callee.form_arg, arg)
           /\ lookup' = [op |-> "new_var", env |-> callee.env,
                         name |-> callee.form_arg, value |-> arg,
                         res |-> o.tramp.env, fn |-> callee, meta |-> meta]
    /\ UNCHANGED <<node, pc, tramp, insts, calls, depth, events, built,
                   errors>>

NextEnv ==
    \/ EvalVar
    \/ EvalLambda
    \/ ApplyClosure

SpecEnv == InitEnv /\ [][NextEnv]_vars

\* ------------------------------------- the two ways to apply a closure

\* fn.call([arg], interpreter, meta) on a closure built over an environment
\* of the heap, by a host that has the closure in hand. The call is
\* recorded with what apply(fn, arg, meta, then) hands to then for the same
\* closure and argument in the same state: apply's step is the _visit of
\* the body in the new frame, and the body, a Var, hands its value to then
\* in that one step. A host exception ends the program.
CallClosure ==
    /\ pc = "env"
    /\ \E b \in built, arg \in Values, meta \in Metas :
        LET r == call(b.fn, <<arg>>, meta, insts)
            o == apply(b.fn, arg, meta, <<>>, envs, insts)
            d == _visit(o.tramp.node, o.tramp.env, o.tramp.then,
                        o.envs, o.insts)
        IN /\ pc' = IF r.raised THEN "raised" ELSE pc
           /\ calls' = calls \o r.pushed
           /\ lookup' = [op |-> "call", env |-> b.fn.env,
                         name |-> b.fn.form_arg, value |-> arg,
                         res |-> r.res, fn |-> b.fn, meta |-> meta,
                         raised |-> r.raised, applied |-> d.tramp.arg]
    /\ UNCHANGED <<node, tramp, envs, insts, depth, events, bound, built,
                   errors>>

NextCall ==
    \/ EvalLambda
    \/ ApplyClosure
    \/ CallClosure

SpecCall == InitEnv /\ [][NextCall]_vars

\* --------------------------------- the capabilities of classes, instances

\* The positions the calls are made at.
Positions == {1, 2}

\* The classes instantiated, the argument lists handed to new and call, and
\* the attribute names looked up: zz is a member of no class.
NewClasses == {"Exception", "NotImplementedException", "A", "C"}
ArgLists == {<<>>, <<String("m")>>}
Attrs == {"__init__", "__dump__", "v", "zz"}

\* An ASTInterpreter, no instance allocated yet.
InitObj ==
    /\ node = Other(1)
    /\ pc = "obj"
    /\ tramp = Unassigned
    /\ envs = <<>>
    /\ insts = <<>>
    /\ calls = <<>>
    /\ depth = 0
    /\ events = <<>>
    /\ bound = <<>>
    /\ built = {}
    /\ lookup = NoLookup
    /\ errors = {}

\* The state a call was made in.
NoBefore == [insts |-> <<>>, calls |-> <<>>, envs |-> <<>>]

Before == [insts |-> insts, calls |-> calls, envs |-> envs]

\* The call recv.op(...) at meta left r: the heap and interpreter.calls as
\* it left them, and the call as the last one made, with the state it was
\* made in if that is recorded. A host exception ends the program. An
\* instance allocated by a call that raised is referred to by nothing and
\* is not kept.
Leave(op, recv, attr, args, meta, r, before) ==
    /\ Len(r.insts) <= MaxObjs
    /\ pc' = IF r.raised THEN "raised" ELSE pc
    /\ insts' = IF r.raised THEN insts ELSE r.insts
    /\ calls' = calls \o r.pushed
    /\ errors' = IF ~r.raised /\ r.res.kind = "BLError"
                 THEN errors \cup {r.res} ELSE errors
    /\ lookup' = [op |-> op, recv |-> recv, attr |-> attr, args |-> args,
                  meta |-> meta, raised |-> r.raised, res |-> r.res,
                  before |-> before]
    /\ UNCHANGED <<node, tramp, envs, depth, events, bound, built>>

\* class_.new(args, interpreter, meta)
New ==
    /\ pc = "obj"
    /\ \E c \in NewClasses, args \in ArgLists, meta \in Positions :
        Leave("new", ClassRef(c), "", args, meta,
              Class_new(insts, c, args, meta), NoBefore)

\* instance.get_attr(attr, interpreter, meta)
GetAttr ==
    /\ pc \in {"obj", "err"}
    /\ \E i \in DOMAIN insts, attr \in Attrs, meta \in Positions :
        Leave("get_attr", InstanceRef(i), attr, <<>>, meta,
              Instance_get_attr(insts, i, attr, meta), NoBefore)

\* instance.set_attr("v", value, interpreter, meta), on an instance whose
\* class inherits a member v.
SetAttr ==
    /\ pc = "obj"
    /\ \E i \in DOMAIN insts, value \in {NULL} \cup errors,
          meta \in Positions :
        /\ insts[i].class_ = "C"
        /\ Leave("set_attr", InstanceRef(i), "v", <<value>>, meta,
                 Instance_set_attr(insts, i, "v", value, meta), NoBefore)

\* function.call(args, interpreter, meta) on a closure.
CallFunction ==
    /\ pc = "obj"
    /\ \E args \in {<<>>, <<NULL>>}, meta \in Positions :
        Leave("call", Identity, "", args, meta,
              call(Identity, args, meta, insts), NoBefore)

NextObj ==
    \/ New
    \/ GetAttr
    \/ SetAttr
    \/ CallFunction

SpecObj == InitObj /\ [][NextObj]_vars

\* ------------------------------------------ the capabilities of an error

\* An ASTInterpreter, no error produced yet.
InitErr ==
    /\ node = Other(1)
    /\ pc = "err"
    /\ tramp = Unassigned
    /\ envs = <<>>
    /\ insts = <<>>
    /\ calls = <<>>
    /\ depth = 0
    /\ events = <<>>
    /\ bound = <<>>
    /\ built = {}
    /\ lookup = NoLookup
    /\ errors = {}

\* The values at hand that do not override call.
Uncallable ==
    {NULL, Bool(TRUE), String("m"), PythonValue(1), ClassRef("C")}
        \cup {InstanceRef(i) : i \in DOMAIN insts}

\* apply(callee, arg, meta, then) on a callee that does not override call,
\* then being the continuation visit hands to _visit: res is the step
\* apply returns.
ApplyValue ==
    /\ pc = "err"
    /\ \E callee \in Uncallable, arg \in {NULL} \cup errors,
          meta \in Positions :
        LET o == apply(callee, arg, meta, <<>>, envs, insts)
        IN /\ Len(o.insts) <= MaxObjs
           /\ pc' = IF o.raised THEN "raised" ELSE pc
           /\ insts' = IF o.raised THEN insts ELSE o.insts
           /\ errors' = IF o.tramp.tag = "running" /\ o.tramp.f = "then"
                           /\ o.tramp.arg.kind = "BLError"
                        THEN errors \cup {o.tramp.arg} ELSE errors
           /\ lookup' = [op |-> "apply", recv |-> callee, attr |-> "",
                         args |-> <<arg>>, meta |-> meta,
                         raised |-> o.raised, res |-> o.tramp,
                         before |-> NoBefore]
    /\ UNCHANGED <<node, tramp, envs, calls, depth, events, bound, built>>

\* A capability of a BLError: e.get_attr, e.set_attr, e.call, e.new, e.dump.
ErrorOp ==
    /\ pc = "err"
    /\ \E e \in errors, meta \in Positions :
        \/ Leave("BLError.get_attr", e, "v", <<>>, meta,
                 BLError_get_attr(insts, e, "v", meta), Before)
        \/ Leave("BLError.set_attr", e, "v", <<NULL>>, meta,
                 BLError_set_attr(insts, e, "v", NULL, meta), Before)
        \/ Leave("BLError.call", e, "", <<NULL>>, meta,
                 BLError_call(insts, e, <<NULL>>, meta), Before)
        \/ Leave("BLError.new", e, "", <<>>, meta,
                 BLError_new(insts, e, <<>>, meta), Before)
        \/ Leave("BLError.dump", e, "", <<>>, meta,
                 BLError_dump(insts, e, meta), Before)

NextErr ==
    \/ ApplyValue
    \/ GetAttr
    \/ ErrorOp

SpecErr == InitErr /\ [][NextErr]_vars

\* ------------------------------- evaluations in sequence, one interpreter

\* What is recorded when visit is entered: interpreter.calls as it is then.
Entered == [op |-> "visit", calls |-> calls]

\* ASTInterpreter.__init__, and the first AST visit is about to be called
\* with.
InitSeq ==
    /\ node \in Exprs(MaxRunNodes, 1)
    /\ pc = "start"
    /\ tramp = Unassigned
    /\ envs = <<>>
    /\ insts = <<>>
    /\ calls = <<>>
    /\ depth = 1
    /\ events = <<>>
    /\ bound = <<>>
    /\ built = {}
    /\ lookup = [op |-> "visit", calls |-> <<>>]
    /\ errors = {}

\* The host goes on to the next input: interpret parses it and calls visit
\* on the AST n, on the same interpreter. What the evaluation before
\* allocated is referred to by nothing but the frames on interpreter.calls,
\* which hold closures over no environment.
Enter(n) ==
    /\ node' = n
    /\ pc' = "start"
    /\ tramp' = Unassigned
    /\ envs' = <<>>
    /\ insts' = <<>>
    /\ depth' = 1
    /\ events' = <<>>
    /\ bound' = <<>>
    /\ lookup' = Entered
    /\ UNCHANGED <<calls, built, errors>>

\* main_interactive: visit returned, the result is reported and the next
\* line is read and evaluated.
Again ==
    /\ pc = "returned"
    /\ \E n \in Exprs(MaxRunNodes, 1) : Enter(n)

\* main_interactive: Ctrl-C while visit runs is a KeyboardInterrupt, which
\* the loop catches before it reads and evaluates the next line.
Interrupt ==
    /\ pc = "loop"
    /\ \E n \in Exprs(MaxRunNodes, 1) : Enter(n)

\* A host that holds the closure visit returned calls it, res.call([NULL],
\* interpreter, meta), and catches the AttributeError: the frame call_cps
\* appended stays on interpreter.calls.
CallResult ==
    /\ pc = "returned"
    /\ tramp.res = Identity
    /\ Len(calls) < MaxCalls
    /\ \E meta \in Positions :
        LET r == call(tramp.res, <<NULL>>, meta, insts)
        IN /\ r.raised
           /\ calls' = calls \o r.pushed
    /\ UNCHANGED <<node, pc, tramp, envs, insts, depth, events, bound,
                   built, lookup, errors>>

NextSeq ==
    \/ Visit
    \/ LoopVisit
    \/ LoopThenDone
    \/ LoopThenCallee
    \/ LoopThenArg
    \/ LoopDone
    \/ LoopNoMatch
    \/ Again
    \/ Interrupt
    \/ CallResult

SpecSeq == InitSeq /\ [][NextSeq]_vars

\* ------------------------------------------------- the claims, under Spec

\* The AST is built from Paren, Call, Var and Lambda only.
FourKinds(n) == \A m \in Nodes(n) : m.kind # "Other"

CallNodes == {n \in Nodes(node) : n.kind = "Call"}

\* The position m lies in the subtree rooted at the position r.
RECURSIVE InSubtree(_, _)
InSubtree(m, r) == m = r \/ (m > r /\ InSubtree(m \div 2, r))

LastEv == events[Len(events)]

\* The last host call the loop made was apply(AppliedCallee, AppliedArg, ..).
Applied == Len(events) >= 2 /\ LastEv.ev = "apply"
AppliedCallee == LastEv.val
AppliedArg == events[Len(events) - 1].val

\* The last host call the loop made was _visit(VisitedNode, LastEv.env, ..).
Visited == Len(events) >= 1 /\ LastEv.ev = "visit"
VisitedNode == CHOOSE n \in Nodes(node) : n.meta = LastEv.meta

\* The loop holds x as the result handed to a continuation, or as the
\* result visit returns.
Delivers(x) ==
    /\ pc \in {"loop", "returned"}
    /\ \/ tramp.tag = "running" /\ tramp.f = "then" /\ tramp.arg = x
       \/ tramp.tag = "done" /\ tramp.res = x

\* C1: on a closed AST built from Paren, Call, Var and Lambda, visit raises
\* no host exception, its loop is never left holding an object that is no
\* step, and what it returns is a Value or a BLError.
C1_ClosedEvaluationReturns ==
    (FourKinds(node) /\ FreeVars(node) = {}) =>
        /\ pc # "raised"
        /\ ~(pc = "loop" /\ tramp.tag = "object")
        /\ pc = "returned" => tramp.res.kind \in {"BLFunction", "BLError"}

\* C2: for every Call node, a _visit call on a node of its arg comes only
\* after its callee has evaluated, and to a Value, not a BLError; and the
\* apply call of the Call comes only after its arg has evaluated.
C2_CalleeThenArgThenApply ==
    \A c \in CallNodes, i \in DOMAIN events :
        /\ (events[i].ev = "visit" /\ InSubtree(events[i].meta, c.arg.meta))
            => \E j \in 1..(i - 1) :
                   /\ events[j].ev = "callee"
                   /\ events[j].meta = c.meta
                   /\ events[j].val.kind # "BLError"
        /\ (events[i].ev = "apply" /\ events[i].meta = c.meta)
            => \E j \in 1..(i - 1) :
                   events[j].ev = "arg" /\ events[j].meta = c.meta

\* C3: when apply is called with a callee that is a Value and an arg that
\* is a BLError, the Call's result is that BLError, handed to the Call's
\* continuation, and no environment frame binds a BLError.
C3_ArgErrorIsTheResult ==
    /\ (Applied /\ AppliedCallee.kind # "BLError"
                /\ AppliedArg.kind = "BLError") => Delivers(AppliedArg)
    /\ \A e \in DOMAIN envs : bound[e].value.kind # "BLError"

\* C4: when apply is called with a callee that is a BLError, that same
\* BLError is the application's result: the loop goes on with it and visit
\* returns it.
C4_CalleeErrorIsTheResult ==
    (Applied /\ AppliedCallee.kind = "BLError") => Delivers(AppliedCallee)

\* C5: the nesting of host calls never exceeds the depth of the evaluator's
\* deepest chain of non-recursive calls, whatever the AST's nesting.
C5_HostDepthBounded == depth <= HostDepthBound

\* C6: when apply is called with a BLFunction and an argument value, the
\* loop's next step is _visit of the function's body in a new frame, the
\* last of the heap, whose parent is the function's captured environment
\* and which binds the formal parameter to the argument.
C6_ApplySchedulesBodyInNewFrame ==
    (Applied /\ AppliedCallee.kind = "BLFunction"
             /\ AppliedArg.kind # "BLError") =>
        /\ pc = "loop"
        /\ tramp.tag = "running"
        /\ tramp.f = "_visit"
        /\ tramp.node = AppliedCallee.body
        /\ tramp.env = Len(envs)
        /\ envs[tramp.env].parent = AppliedCallee.env
        /\ AppliedCallee.form_arg \in DOMAIN envs[tramp.env].vars
        /\ envs[tramp.env].vars[AppliedCallee.form_arg] = EnvVar(AppliedArg)

\* C10: when _visit is called on a Var node whose name no frame of the
\* environment it is handed binds (at top level there is no frame at all),
\* no host exception is raised and the result handed on is a BLError whose
\* instance is a VarNotFoundException and whose position is the Var's.
C10_UnboundVarIsVarNotFound ==
    (/\ Visited
     /\ VisitedNode.kind = "Var"
     /\ \/ LastEv.env = None
        \/ VisitedNode.name \notin DOMAIN Visible(envs, LastEv.env)) =>
        /\ pc = "loop"
        /\ tramp.tag = "running"
        /\ tramp.f = "then"
        /\ tramp.arg.kind = "BLError"
        /\ insts[tramp.arg.value].class_ = "VarNotFoundException"
        /\ tramp.arg.meta = VisitedNode.meta

\* C22: whatever the loop of visit holds as its pending step is a step, a
\* "running" step with its function and arguments or a "done" step with its
\* result, whatever kind of callee and argument apply was handed.
C22_PendingStepIsWellFormed ==
    pc = "loop" => tramp.tag \in {"running", "done"}

\* ---------------------------------------------- the claims, under SpecEnv

\* C7: every closure built by evaluating a Lambda node holds the
\* environment that evaluation was handed, and the bindings visible
\* through it are those visible when it was built, whatever was evaluated
\* or applied since.
C7_ClosureKeepsItsEnvironment ==
    \A b \in built :
        /\ b.fn.kind = "BLFunction"
        /\ b.fn.env = b.env
        /\ b.fn.form_arg = b.node.form_arg
        /\ b.fn.body = b.node.body
        /\ Visible(envs, b.fn.env) = b.seen

\* Two closures of one Lambda node over two environments, one of which was
\* extended after both were built.
C7_Witness ==
    \E b1 \in built, b2 \in built, e \in DOMAIN envs :
        /\ b1.node = b2.node
        /\ b1.env # b2.env
        /\ e > b1.at
        /\ e > b2.at
        /\ envs[e].parent \in {b1.env, b2.env}

\* The binding map an environment was created with: none for Env(), and
\* for a child the map its parent was created with plus its own binding.
RECURSIVE CreatedWith(_)
CreatedWith(e) ==
    IF envs[e].parent = None THEN EmptyDict
    ELSE LET p == CreatedWith(envs[e].parent)
         IN [n \in DOMAIN p \cup {bound[e].name} |->
                IF n = bound[e].name THEN EnvVar(bound[e].value) ELSE p[n]]

\* C8: the binding map of every environment is the one it was created
\* with: its parent's bindings plus the name new_var bound, and new_var
\* changes neither its receiver nor an ancestor.
C8_EnvironmentsAreNeverMutated ==
    \A e \in DOMAIN envs : envs[e].vars = CreatedWith(e)

\* new_var was just called on an environment that has bindings and a
\* parent.
C8_Witness ==
    /\ lookup.op = "new_var"
    /\ lookup.res = Len(envs)
    /\ envs[lookup.env].parent # None
    /\ lookup.name \notin DOMAIN envs[lookup.env].vars

NotBound == [kind |-> "NotBound"]

\* The value bound to name by the innermost frame, from e outwards, whose
\* own binding is of name.
RECURSIVE Innermost(_, _)
Innermost(e, name) ==
    IF e = None THEN NotBound
    ELSE IF bound[e].name = name THEN bound[e].value
    ELSE Innermost(envs[e].parent, name)

\* C9: get_var of a name some frame of the chain binds returns the value
\* bound by the innermost such frame.
C9_InnermostBindingWins ==
    (lookup.op = "get_var"
        /\ Innermost(lookup.env, lookup.name) # NotBound) =>
        lookup.res = Innermost(lookup.env, lookup.name)

\* get_var was just called for a name the frame binds and an outer frame
\* binds to another value.
C9_Witness ==
    /\ lookup.op = "get_var"
    /\ bound[lookup.env].name = lookup.name
    /\ Innermost(envs[lookup.env].parent, lookup.name)
           \notin {NotBound, bound[lookup.env].value}
    /\ lookup.res = bound[lookup.env].value

\* C11: once apply has scheduled the body of a BLFunction in its new frame,
\* and before any step of the body, the last frame of interpreter.calls is
\* Call(that function, the call-site position).
C11_ApplyPushesCallFrame ==
    lookup.op = "new_var" =>
        /\ Len(calls) >= 1
        /\ calls[Len(calls)] = CallFrame(lookup.fn, lookup.meta)

\* The last call made was get_var for the body, a Var node, of a closure
\* built before, in the frame an application of that closure made.
BodyEvaluated ==
    /\ lookup.op = "get_var"
    /\ envs[lookup.env].parent # None
    /\ \E b \in built :
        /\ b.fn.env = envs[lookup.env].parent
        /\ b.fn.form_arg = bound[lookup.env].name
        /\ b.fn.body = Var(lookup.value, lookup.name)

\* C12: when the body of an applied BLFunction evaluates to a BLError, the
\* frame of that application is on interpreter.calls, the last one.
C12_ErrorKeepsCallFrame ==
    (BodyEvaluated /\ lookup.res.kind = "BLError") =>
        /\ Len(calls) >= 1
        /\ calls[Len(calls)].function.form_arg = bound[lookup.env].name
        /\ calls[Len(calls)].function.env = envs[lookup.env].parent

\* --------------------------------------------- the claims, under SpecCall

\* C23: fn.call([arg], interpreter, meta) on a closure returns, without a
\* host exception, the very result that apply(fn, arg, meta, then) hands to
\* then: the value of the body with the formal parameter bound to arg in a
\* frame on top of the closure's captured environment.
C23_CallAgreesWithApply ==
    lookup.op = "call" =>
        /\ ~lookup.raised
        /\ lookup.res = lookup.applied

\* ---------------------------------------------- the claims, under SpecObj

\* The linear chain of a class: the class, its superclass, and so on.
RECURSIVE ClassChain(_)
ClassChain(c) ==
    IF Classes[c].super = "None" THEN <<c>>
    ELSE <<c>> \o ClassChain(Classes[c].super)

\* The places of the chain of c whose class defines attr.
Definers(c, attr) ==
    {k \in DOMAIN ClassChain(c) : attr \in DOMAIN Classes[ClassChain(c)[k]].vars}

\* The member attr of the nearest class of the chain of c that defines it.
NearestMember(c, attr) ==
    LET k == CHOOSE k \in Definers(c, attr) :
                 \A j \in Definers(c, attr) : k <= j
    IN Classes[ClassChain(c)[k]].vars[attr]

IsFunction(value) == value.kind \in {"PythonFunction", "BLFunction"}

\* The last call made was get_attr, on the instance Receiver.
GotAttr == lookup.op = "get_attr"
Receiver == lookup.recv.id

\* C13: get_attr of a name that neither the instance nor its class nor the
\* superclass defines and the superclass's superclass defines as a function
\* returns that function with the instance as its receiver `this` and its
\* other fields unchanged.
C13_InheritedMethodIsBound ==
    (/\ GotAttr
     /\ lookup.attr \notin DOMAIN insts[Receiver].vars
     /\ Definers(insts[Receiver].class_, lookup.attr) # {}
     /\ \A k \in Definers(insts[Receiver].class_, lookup.attr) : k >= 3
     /\ 3 \in Definers(insts[Receiver].class_, lookup.attr)
     /\ IsFunction(NearestMember(insts[Receiver].class_, lookup.attr))) =>
        /\ ~lookup.raised
        /\ lookup.res.kind =
               NearestMember(insts[Receiver].class_, lookup.attr).kind
        /\ lookup.res.this = Receiver
        /\ [lookup.res EXCEPT !.this = None] =
               NearestMember(insts[Receiver].class_, lookup.attr)

\* The value res is the class member m, whatever the receiver and the name
\* it was bound with.
SameMember(res, m) ==
    /\ res.kind = m.kind
    /\ CASE m.kind = "BLFunction" ->
              /\ res.form_arg = m.form_arg
              /\ res.body = m.body
              /\ res.env = m.env
              /\ res.src = m.src
         [] m.kind = "PythonFunction" -> res.function = m.function
         [] OTHER -> res = m

\* C14: get_attr returns the instance's private member if it has one;
\* otherwise the member of the nearest class of the chain class,
\* superclass, ... that defines the name; and if none does, a BLError
\* wrapping an instance of AttrNotFoundException.
C14_AttributeLookupOrder ==
    GotAttr =>
        /\ ~lookup.raised
        /\ IF lookup.attr \in DOMAIN insts[Receiver].vars
           THEN lookup.res = insts[Receiver].vars[lookup.attr]
           ELSE IF Definers(insts[Receiver].class_, lookup.attr) # {}
           THEN SameMember(lookup.res,
                           NearestMember(insts[Receiver].class_, lookup.attr))
           ELSE /\ lookup.res.kind = "BLError"
                /\ insts[lookup.res.value].class_ = "AttrNotFoundException"

\* get_attr was just called for a name two classes of the chain define, on
\* an instance that has no such private member.
C14_Witness ==
    /\ GotAttr
    /\ lookup.attr \notin DOMAIN insts[Receiver].vars
    /\ Cardinality(Definers(insts[Receiver].class_, lookup.attr)) >= 2
    /\ lookup.res = String("B")

\* The last call made was new, on the class NewClass.
Instantiated == lookup.op = "new"
NewClass == lookup.recv.name

\* C15: new on a class whose chain defines __init__ invokes that member
\* with args and the new instance as receiver: exc_init leaves args[0] as
\* the instance's msg, and a closure is called, which appends its frame to
\* interpreter.calls.
C15_InheritedInitIsInvoked ==
    (/\ Instantiated
     /\ lookup.args # <<>>
     /\ Definers(NewClass, "__init__") # {}) =>
        IF NearestMember(NewClass, "__init__").kind = "PythonFunction"
        THEN /\ ~lookup.raised
             /\ lookup.res.kind = "Instance"
             /\ "msg" \in DOMAIN insts[lookup.res.id].vars
             /\ insts[lookup.res.id].vars["msg"] = lookup.args[1]
        ELSE /\ Len(calls) >= 1
             /\ calls[Len(calls)].function.form_arg =
                    NearestMember(NewClass, "__init__").form_arg

\* C16: new on a class whose __init__ is a closure, with an argument list
\* the closure cannot bind, so that the constructor yields a BLError (C19),
\* returns a BLError and raises no host exception.
C16_InitErrorIsReturned ==
    (/\ Instantiated
     /\ lookup.args = <<>>
     /\ "__init__" \in DOMAIN Classes[NewClass].vars
     /\ Classes[NewClass].vars["__init__"].kind = "BLFunction") =>
        /\ ~lookup.raised
        /\ lookup.res.kind = "BLError"

\* C19: call on a BLFunction with the empty argument list raises no host
\* exception and returns a BLError wrapping an instance of
\* IncorrectTypeException.
C19_UnbindableArgsIsIncorrectType ==
    (lookup.op = "call" /\ lookup.recv.kind = "BLFunction"
        /\ lookup.args = <<>>) =>
        /\ ~lookup.raised
        /\ lookup.res.kind = "BLError"
        /\ insts[lookup.res.value].class_ = "IncorrectTypeException"

\* ---------------------------------------------- the claims, under SpecErr

BLErrorOps ==
    {"BLError.get_attr", "BLError.set_attr", "BLError.call", "BLError.new",
     "BLError.dump"}

\* C17: get_attr, set_attr, call, new and dump on a BLError e each return e
\* and leave the heap of instances, the wrapped instance's member map with
\* it, interpreter.calls and every environment as they were.
C17_ErrorCapabilitiesReturnSelf ==
    lookup.op \in BLErrorOps =>
        /\ ~lookup.raised
        /\ lookup.res = lookup.recv
        /\ insts = lookup.before.insts
        /\ calls = lookup.before.calls
        /\ envs = lookup.before.envs

\* set_attr was just called on one of two errors produced at different
\* positions.
C17_Witness ==
    /\ lookup.op = "BLError.set_attr"
    /\ lookup.recv \in errors
    /\ \E e \in errors : e.meta # lookup.recv.meta

UncallableKinds ==
    {"Null", "Bool", "String", "PythonValue", "Class", "Instance"}

\* C18: apply on a callee that does not override call, whatever the
\* argument, raises no host exception and returns the step that hands to
\* the continuation a BLError wrapping an instance of
\* NotImplementedException, at the call-site position.
C18_UncallableIsNotImplemented ==
    (lookup.op = "apply" /\ lookup.recv.kind \in UncallableKinds) =>
        /\ ~lookup.raised
        /\ lookup.res.tag = "running"
        /\ lookup.res.f = "then"
        /\ lookup.res.then = <<>>
        /\ lookup.res.arg.kind = "BLError"
        /\ lookup.res.arg.meta = lookup.meta
        /\ insts[lookup.res.arg.value].class_ = "NotImplementedException"

\* apply was just called on an Instance, with a BLError as the argument.
C18_Witness ==
    /\ lookup.op = "apply"
    /\ lookup.recv.kind = "Instance"
    /\ lookup.args[1].kind = "BLError"
    /\ lookup.res.arg # lookup.args[1]

\* C20: the instance every BLError produced wraps has the private member
\* meta, which holds the error's position.
C20_PositionStoredOnInstance ==
    \A e \in errors :
        /\ "meta" \in DOMAIN insts[e.value].vars
        /\ insts[e.value].vars["meta"] = PythonValue(e.meta)

\* Two errors were produced, of two classes, at two positions.
C20_Witness ==
    \E e1 \in errors, e2 \in errors :
        /\ e1.meta # e2.meta
        /\ insts[e1.value].class_ # insts[e2.value].class_

\* C24: every error produced wraps an instance allocated for it: no step
\* changes an instance that was already on the heap, so the position an
\* earlier error recorded stays what it was, and the error a step produces
\* wraps an instance that was not on the heap before the step. The member
\* maps of the classes are Classes, which no operation writes.
C24_ErrorsAllocateFreshInstances ==
    [][/\ \A i \in DOMAIN insts :
            i \in DOMAIN insts' /\ insts'[i] = insts[i]
       /\ \A e \in errors' \ errors : e.value \notin DOMAIN insts]_vars

\* Two errors of one class were produced at two positions, the later after
\* the earlier, and the earlier's instance still holds the earlier's
\* position.
C24_Witness ==
    \E e1 \in errors, e2 \in errors :
        /\ e1.value < e2.value
        /\ e1.meta # e2.meta
        /\ insts[e1.value].class_ = insts[e2.value].class_
        /\ insts[e1.value].vars["meta"] = PythonValue(e1.meta)

\* ---------------------------------------------- the claims, under SpecSeq

\* The sequence s is a prefix of the sequence t.
IsPrefix(s, t) == Len(s) <= Len(t) /\ SubSeq(t, 1, Len(s)) = s

\* C21: visit never clears or removes a frame that was on interpreter.calls
\* when it was entered: from the entry of an evaluation until the next one
\* is entered, what interpreter.calls held at the entry, the frames left by
\* the evaluations before included, is a prefix of interpreter.calls.
C21_VisitKeepsFrames ==
    lookup.op = "visit" => IsPrefix(lookup.calls, calls)

\* An evaluation entered with a frame on interpreter.calls has run to its
\* end and returned an error.
C21_Witness ==
    /\ lookup.op = "visit"
    /\ lookup.calls # <<>>
    /\ pc = "returned"
    /\ tramp.res.kind = "BLError"

====
